---- MODULE Spec2Model ----
(***************************************************************************)
(* P9-ML membrane computing framework (src/src/ggml-p9ml.c).               *)
(*                                                                         *)
(* The program state is a heap of membranes, namespaces and tensors.  Each *)
(* public function of ggml-p9ml.c is one action; the recursive functions   *)
(* are RECURSIVE operators that thread the heap through the recursion in   *)
(* the order the C code executes its statements.  Every call leaves the    *)
(* events it performed in `log` and its return code in `ret`.              *)
(***************************************************************************)
EXTENDS Integers, Sequences, FiniteSets, TLC

(* ---- bounds of the model ------------------------------------------------ *)
\* number of membranes created by ggml_p9ml_membrane_new before the run
NumMembranes == 3
\* number of namespaces created by ggml_p9ml_namespace_new before the run
NumNamespaces == 2
\* capacity of a membrane's children array (P9ML_DEFAULT_MAX_CHILDREN is 16
\* in the source; the model scales max_children down so that the capacity
\* check of add_child is reached)
MaxChildren == 2
\* capacity of a membrane's objects array (P9ML_DEFAULT_MAX_OBJECTS is 256 in
\* the source, scaled down likewise)
MaxObjects == 2
\* number of API calls of one run
MaxSteps == 3
\* largest element count and largest tile size of the tile loop
MaxElements == 9
MaxTileSize == 4

(* ---- program constants -------------------------------------------------- *)
NULL == 0
\* return codes of the int-returning API functions
OK == 0
ERR == -1
\* threshold of ggml_p9ml_mixed_precision_quantize
LargeThreshold == 1000000
\* tile_size set by ggml_p9ml_qat_config_new
DefaultTileSize == 3

Membranes == 1..NumMembranes
Namespaces == 1..NumNamespaces

(* ---- tensors (struct ggml_tensor, owned by the ggml context) ------------ *)
\* The tensors the caller allocated: 1 is a float32 tensor of two elements,
\* 2 an int32 tensor of one element, 3 a float32 tensor of 1000001 elements
\* created in a no_alloc context (data == NULL), 4 a float16 tensor of two
\* elements.
Tensors == {1, 2, 3, 4}
\* the tensors that add_object is called with; the float16 tensor is
\* attached in InitHalf
TensorArgs == {1, 2, 3, NULL}
GGML_TYPE_F32 == "F32"
GGML_TYPE_F16 == "F16"
GGML_TYPE_I32 == "I32"
TensorType(t) ==
  IF t = 2 THEN GGML_TYPE_I32 ELSE IF t = 4 THEN GGML_TYPE_F16 ELSE GGML_TYPE_F32
\* ggml_nelements(tensor)
ggml_nelements(t) == IF t \in {1, 4} THEN 2 ELSE IF t = 2 THEN 1 ELSE LargeThreshold + 1
\* tensor->data != NULL
TensorHasData(t) == t # 3
\* bytes of one element, and the tensor's storage counted in 4-byte slots
ElementWidth(t) == IF TensorType(t) = GGML_TYPE_F16 THEN 2 ELSE 4
FloatSlots(t) == (ggml_nelements(t) * ElementWidth(t)) \div 4

(* ---- transform configurations (struct ggml_p9ml_qat_config) ------------- *)
\* ggml_p9ml_qat_config_new(target_type, noise_scale); noise_scale is a
\* float32 holding a small whole number.
ggml_p9ml_qat_config_new(target_type, noise_scale) ==
  [target_type |-> target_type, noise_scale |-> noise_scale,
   per_channel |-> TRUE, mixed_precision |-> FALSE, num_steps |-> 100,
   tile_size |-> DefaultTileSize, use_reference |-> TRUE]
\* the configs a caller passes: noise scale 0.0 to Q4_0 and 1.0 to Q8_0
Configs == {ggml_p9ml_qat_config_new("Q4_0", 0), ggml_p9ml_qat_config_new("Q8_0", 1)}
\* membrane->qat_config == NULL
NoConfig ==
  [target_type |-> "none", noise_scale |-> 0, per_channel |-> FALSE,
   mixed_precision |-> FALSE, num_steps |-> 0, tile_size |-> 0,
   use_reference |-> FALSE]
ConfigArgs == Configs \cup {NoConfig}
\* The storage of config objects, as numbered heap blocks: one for each copy
\* that a membrane can own (line 229) and, above them, the blocks of the
\* caller's own configs, made by ggml_p9ml_qat_config_new (line 190).
CopyBlocks == 1..NumMembranes
ConfigBlockOf(config) == NumMembranes + (IF config.target_type = "Q4_0" THEN 1 ELSE 2)
CallerBlocks == {ConfigBlockOf(c) : c \in Configs}

VARIABLES
  membrane,    \* [Membranes -> struct ggml_p9ml_membrane]
  namespace,   \* [Namespaces -> struct ggml_p9ml_namespace]
  data,        \* [Tensors -> the tensor's storage seen as float32 slots]
  seed,        \* the static seed of ggml_p9ml_generate_noise, <<high16, low16>>
  freed,       \* membranes whose storage was released by free()
  ns_freed,    \* namespaces whose storage was released by free()
  config_freed, \* config blocks that are free storage: never given out, or
               \* released by free()
  call,        \* the last API call: its name and arguments
  log,         \* events of the last API call, in execution order
  ret,         \* return code of the last API call
  fault,       \* "none", or how the process died
  steps        \* API calls made so far

vars == <<membrane, namespace, data, seed, freed, ns_freed, config_freed, call, log,
          ret, fault, steps>>

\* the part of the state that the recursive functions read and write
\* (ub: what a read of released storage does in this build, see Deref;
\* fail_at: which malloc of the call fails, 0 for none)
UBOutcomes == IF freed = {} THEN {"crash"} ELSE {"crash", "stale"}
Heap(ub, fail_at) ==
  [membrane |-> membrane, namespace |-> namespace, data |-> data, seed |-> seed,
   freed |-> freed, ns_freed |-> ns_freed, config_freed |-> config_freed,
   log |-> <<>>, fault |-> "none",
   mallocs |-> 0, ub |-> ub, fail_at |-> fail_at]

\* one logged event: kind, the membrane, the tensor and an index or value
Ev(kind, m, t, j) == [kind |-> kind, m |-> m, t |-> t, j |-> j]
Emit(h, e) == [h EXCEPT !.log = Append(@, e)]

\* The code dereferences membrane m.  Reading storage that free() released is
\* undefined behaviour: the process dies there, or the stale contents are
\* still in place and the code carries on with them.
Deref(h, m) ==
  IF m \in h.freed
  THEN [Emit(h, Ev("use_after_free", m, NULL, 0))
          EXCEPT !.fault = IF h.ub = "crash" THEN "use_after_free" ELSE @]
  ELSE h

\* an API call: op(m, x) or op(m, cfg); m is the membrane argument, x the
\* other pointer argument (child, tensor or namespace)
Call(op, m, x, cfg) == [op |-> op, m |-> m, x |-> x, cfg |-> cfg]

\* the call c returns r with heap h: the state after the call
Commit(c, h, r) ==
  /\ call' = c
  /\ membrane' = h.membrane
  /\ namespace' = h.namespace
  /\ data' = h.data
  /\ seed' = h.seed
  /\ freed' = h.freed
  /\ ns_freed' = h.ns_freed
  /\ config_freed' = h.config_freed
  /\ log' = h.log
  /\ fault' = h.fault
  /\ ret' = IF h.fault = "none" THEN r ELSE ret
  /\ steps' = steps + 1

\* the caller may make another call: the process is alive
Callable == fault = "none" /\ steps < MaxSteps
(* ---- construction ------------------------------------------------------- *)
\* ggml_p9ml_membrane_new(name, level, ctx) with malloc succeeding;
\* qat_config is what membrane->qat_config points to (NoConfig for NULL) and
\* config_block the heap block it points to
ggml_p9ml_membrane_new(level) ==
  [level |-> level, ns |-> NULL, parent |-> NULL,
   num_children |-> 0, max_children |-> MaxChildren,
   num_objects |-> 0, max_objects |-> MaxObjects,
   qat_config |-> NoConfig, config_block |-> NULL,
   children |-> [i \in 1..MaxChildren |-> NULL],
   objects |-> [i \in 1..MaxObjects |-> NULL]]

\* ggml_p9ml_namespace_new(name, backend)
ggml_p9ml_namespace_new == [root |-> NULL, target_bits |-> 8, mixed_precision |-> FALSE]

(* ---- the caller's arguments --------------------------------------------- *)
\* Membranes (and namespaces) that no call has written yet are
\* interchangeable, so the caller takes them in the order of their numbers:
\* a call with k membrane arguments draws its fresh ones from the k lowest.
FreshMembrane(m) == m \notin freed /\ membrane[m] = ggml_p9ml_membrane_new(0)
FreshNamespace(n) ==
  /\ n \notin ns_freed
  /\ namespace[n] = ggml_p9ml_namespace_new
  /\ \A m \in Membranes : membrane[m].ns # n
\* pointers the caller still holds: it passes no membrane it has released
LiveMembraneArgs(k) ==
  {m \in Membranes \ freed :
     FreshMembrane(m) => Cardinality({x \in 1..(m - 1) : FreshMembrane(x)}) < k}
    \cup {NULL}
LiveNamespaceArgs ==
  {n \in Namespaces \ ns_freed :
     FreshNamespace(n) => \A x \in 1..(n - 1) : ~FreshNamespace(x)}
    \cup {NULL}
\* the configs the caller still holds, and NULL
LiveConfigArgs == {c \in Configs : ConfigBlockOf(c) \notin config_freed} \cup {NoConfig}

Init ==
  /\ membrane = [m \in Membranes |-> ggml_p9ml_membrane_new(0)]
  /\ namespace = [n \in Namespaces |-> ggml_p9ml_namespace_new]
  /\ data = [t \in Tensors |-> IF TensorHasData(t)
                                THEN [j \in 1..FloatSlots(t) |-> 0]
                                ELSE <<>>]
  /\ seed = <<0, 12345>>
  /\ freed = {}
  /\ ns_freed = {}
  /\ config_freed = CopyBlocks
  /\ call = Call("none", NULL, NULL, NoConfig)
  /\ log = <<>>
  /\ ret = OK
  /\ fault = "none"
  /\ steps = 0

(* ---- float32 arithmetic and the noise generator ------------------------- *)
\* A float32 value v is held as the integer v * 2^24: every float the model
\* meets is a multiple of 2^-24 of magnitude below 2^6, so that its image
\* fits the integers of the checker.

\* n \div u rounded to nearest, ties to even
RoundQuot(n, u) ==
  LET q == n \div u
      r == n % u
  IN IF 2 * r > u \/ (2 * r = u /\ q % 2 = 1) THEN q + 1 ELSE q

\* the spacing of float32 values around n >= 0 (24 bits of mantissa)
RECURSIVE UlpFrom(_, _)
UlpFrom(n, u) == IF (n \div u) < (2^24) THEN u ELSE UlpFrom(n, 2 * u)
Ulp(n) == UlpFrom(n, 1)

\* rounding of an exact result to float32 (round to nearest even)
F32Round(n) ==
  LET a == IF n < 0 THEN -n ELSE n
      u == Ulp(a)
      v == RoundQuot(a, u) * u
  IN IF n < 0 THEN -v ELSE v

\* seed = seed * 1103515245 + 12345 on a 32-bit unsigned int; the seed is
\* held as <<high 16 bits, low 16 bits>> and 1103515245 = 16838 * 2^16 + 20077
LcgNext(s) ==
  LET p == s[2] * 20077 + 12345
  IN <<(((s[1] * 20077) % (2^16)) + ((s[2] * 16838) % (2^16)) + (p \div (2^16))) % (2^16),
       p % (2^16)>>

\* seed & 0x7FFFFFFF
Low31(s) == (s[1] % (2^15)) * (2^16) + s[2]

\* (float)x / (float)0x7FFFFFFF - 0.5f in units of 2^-25.  (float)x rounds x
\* to 24 bits, (float)0x7FFFFFFF is 2^31 and the division is exact; the
\* subtraction is exact when the quotient is at least 0.25 and rounds to a
\* multiple of 2^-25 below that.
NormalizedMinusHalf(x) ==
  LET u == Ulp(x)
      q == RoundQuot(x, u)
  IN IF u >= 64 THEN (q * (u \div 64)) - (2^24)
     ELSE -RoundQuot((2^30) - (q * u), 64)

\* mutant of the generator: the draw is not centred (0.5f is not subtracted)
generate_noise_not_centred(s, scale) ==
  LET s1 == LcgNext(s)
  IN <<s1, F32Round((NormalizedMinusHalf(Low31(s1)) + (2^24)) * scale)>>

\* static float ggml_p9ml_generate_noise(float scale): <<new seed, noise>>.
\* (normalized - 0.5f) * 2.0f is exact, the product with scale is rounded.
ggml_p9ml_generate_noise(s, scale) ==
  LET s1 == LcgNext(s)
  IN <<s1, F32Round(NormalizedMinusHalf(Low31(s1)) * scale)>>

(* ---- membrane hierarchy ------------------------------------------------- *)
\* mutant of add_child: the namespace reference is also written on the
\* children of the attached membrane
add_child_writes_grandchildren(h, parent, child) ==
  IF parent = NULL \/ child = NULL THEN <<h, ERR>>
  ELSE IF h.membrane[parent].num_children >= h.membrane[parent].max_children
  THEN <<h, ERR>>
  ELSE LET m0 == h.membrane
           m1 == [m0 EXCEPT ![parent].children[m0[parent].num_children + 1] = child]
           m2 == [m1 EXCEPT ![child].parent = parent]
           m3 == [m2 EXCEPT ![child].ns = m2[parent].ns]
           m4 == [m3 EXCEPT ![parent].num_children = @ + 1]
           below == {m4[child].children[i] : i \in 1..m4[child].num_children}
           m5 == [m \in DOMAIN m4 |->
                    IF m \in below THEN [m4[m] EXCEPT !.ns = m4[child].ns] ELSE m4[m]]
       IN <<[h EXCEPT !.membrane = m5], OK>>

\* mutant of add_child: a full parent takes the child into its last slot
add_child_overwrites_when_full(h, parent, child) ==
  IF parent = NULL \/ child = NULL THEN <<h, ERR>>
  ELSE LET m0 == h.membrane
           full == m0[parent].num_children >= m0[parent].max_children
           slot == IF full THEN m0[parent].max_children ELSE m0[parent].num_children + 1
           m1 == [m0 EXCEPT ![parent].children[slot] = child]
           m2 == [m1 EXCEPT ![child].parent = parent]
           m3 == [m2 EXCEPT ![child].ns = m2[parent].ns]
           m4 == [m3 EXCEPT ![parent].num_children = IF full THEN @ ELSE @ + 1]
       IN <<[h EXCEPT !.membrane = m4], OK>>

\* mutant of add_child: the child is put in front of the children list
add_child_prepends(h, parent, child) ==
  IF parent = NULL \/ child = NULL THEN <<h, ERR>>
  ELSE IF h.membrane[parent].num_children >= h.membrane[parent].max_children
  THEN <<h, ERR>>
  ELSE LET m0 == h.membrane
           m1 == [m0 EXCEPT ![parent].children =
                    [i \in DOMAIN @ |-> IF i = 1 THEN child ELSE @[i - 1]]]
           m2 == [m1 EXCEPT ![child].parent = parent]
           m3 == [m2 EXCEPT ![child].ns = m2[parent].ns]
           m4 == [m3 EXCEPT ![parent].num_children = @ + 1]
       IN <<[h EXCEPT !.membrane = m4], OK>>

\* ggml_p9ml_membrane_add_child: returns <<heap, return code>>.  A children
\* array that is NULL (its malloc failed in the constructor) is held as <<>>:
\* the store of line 101 goes through the NULL pointer and the process dies.
ggml_p9ml_membrane_add_child(h, parent, child) ==
  IF parent = NULL \/ child = NULL THEN <<h, ERR>>
  ELSE IF h.membrane[parent].num_children >= h.membrane[parent].max_children
  THEN <<h, ERR>>
  ELSE IF h.membrane[parent].children = <<>>
  THEN <<[h EXCEPT !.fault = "null_deref"], ERR>>
  ELSE LET m0 == h.membrane
           m1 == [m0 EXCEPT ![parent].children[m0[parent].num_children + 1] = child]
           m2 == [m1 EXCEPT ![child].parent = parent]
           m3 == [m2 EXCEPT ![child].ns = m2[parent].ns]
           m4 == [m3 EXCEPT ![parent].num_children = @ + 1]
       IN <<[h EXCEPT !.membrane = m4], OK>>

\* mutant of add_object: an absent tensor is stored like any other
add_object_stores_absent(h, m, tensor) ==
  IF m = NULL THEN <<h, ERR>>
  ELSE IF h.membrane[m].num_objects >= h.membrane[m].max_objects
  THEN <<h, ERR>>
  ELSE IF h.membrane[m].objects = <<>>
  THEN <<[h EXCEPT !.fault = "null_deref"], ERR>>
  ELSE LET m0 == h.membrane
           m1 == [m0 EXCEPT ![m].objects[m0[m].num_objects + 1] = tensor]
           m2 == [m1 EXCEPT ![m].num_objects = @ + 1]
       IN <<[h EXCEPT !.membrane = m2], OK>>

\* ggml_p9ml_membrane_add_object
ggml_p9ml_membrane_add_object(h, m, tensor) ==
  IF m = NULL \/ tensor = NULL THEN <<h, ERR>>
  ELSE IF h.membrane[m].num_objects >= h.membrane[m].max_objects
  THEN <<h, ERR>>
  ELSE IF h.membrane[m].objects = <<>>
  THEN <<[h EXCEPT !.fault = "null_deref"], ERR>>
  ELSE LET m0 == h.membrane
           m1 == [m0 EXCEPT ![m].objects[m0[m].num_objects + 1] = tensor]
           m2 == [m1 EXCEPT ![m].num_objects = @ + 1]
       IN <<[h EXCEPT !.membrane = m2], OK>>

(* ---- namespaces --------------------------------------------------------- *)
\* The recursion of a traversal is cut when it is deeper than the number of
\* membranes: some membrane is then twice on the call stack, the traversal
\* does not change the children arrays it follows, so the C recursion never
\* returns and the process dies of stack exhaustion.
MaxDepth == NumMembranes

RECURSIVE ggml_p9ml_propagate_namespace(_, _, _, _)
RECURSIVE propagate_children(_, _, _, _, _)

\* static void ggml_p9ml_propagate_namespace(membrane, ns)
ggml_p9ml_propagate_namespace(h, m, nsp, depth) ==
  IF m = NULL \/ nsp = NULL THEN h
  ELSE IF depth > MaxDepth THEN [h EXCEPT !.fault = "stack_overflow"]
  ELSE LET h0 == Deref(h, m)
           h1 == Emit([h0 EXCEPT !.membrane[m].ns = nsp], Ev("ns", m, NULL, nsp))
       IN IF h0.fault # "none" THEN h0
          ELSE propagate_children(h1, m, 1, nsp, depth)

\* mutant of the propagation loop: the last child is left out
RECURSIVE propagate_children_but_last(_, _, _, _, _)
propagate_children_but_last(h, m, i, nsp, depth) ==
  IF h.fault # "none" \/ i > h.membrane[m].num_children - 1 THEN h
  ELSE LET c == h.membrane[m].children[i]
           h1 == IF c # NULL
                 THEN ggml_p9ml_propagate_namespace(h, c, nsp, depth + 1)
                 ELSE h
       IN propagate_children_but_last(h1, m, i + 1, nsp, depth)

\* the loop "for (i = 0; i < membrane->num_children; i++)" of propagation
propagate_children(h, m, i, nsp, depth) ==
  IF h.fault # "none" \/ i > h.membrane[m].num_children THEN h
  ELSE LET c == h.membrane[m].children[i]
           h1 == IF c # NULL
                 THEN ggml_p9ml_propagate_namespace(h, c, nsp, depth + 1)
                 ELSE h
       IN propagate_children(h1, m, i + 1, nsp, depth)

\* mutant of set_root: the tree of the previous root loses its references to
\* the namespace
set_root_clears_previous_tree(h, nsp, root) ==
  IF nsp = NULL \/ root = NULL THEN <<h, ERR>>
  ELSE LET old == h.namespace[nsp].root
           gone == IF old = NULL THEN {}
                   ELSE {m \in Membranes : h.membrane[m].ns = nsp}
           h0 == [h EXCEPT !.membrane = [m \in Membranes |->
                                          IF m \in gone
                                          THEN [h.membrane[m] EXCEPT !.ns = NULL]
                                          ELSE h.membrane[m]]]
           h1 == [h0 EXCEPT !.namespace[nsp].root = root]
       IN <<ggml_p9ml_propagate_namespace(h1, root, nsp, 1), OK>>

\* mutant of set_root: the root is assigned before the arguments are tested
set_root_assigns_before_test(h, nsp, root) ==
  IF nsp = NULL THEN <<h, ERR>>
  ELSE LET h1 == [h EXCEPT !.namespace[nsp].root = root]
       IN IF root = NULL THEN <<h1, ERR>>
          ELSE <<ggml_p9ml_propagate_namespace(h1, root, nsp, 1), OK>>

\* mutant of set_root: the reference is written below the root only
set_root_skips_root(h, nsp, root) ==
  IF nsp = NULL \/ root = NULL THEN <<h, ERR>>
  ELSE LET h1 == [h EXCEPT !.namespace[nsp].root = root]
       IN <<propagate_children(h1, root, 1, nsp, 1), OK>>

\* ggml_p9ml_namespace_set_root
ggml_p9ml_namespace_set_root(h, nsp, root) ==
  IF nsp = NULL \/ root = NULL THEN <<h, ERR>>
  ELSE LET h1 == [h EXCEPT !.namespace[nsp].root = root]
       IN <<ggml_p9ml_propagate_namespace(h1, root, nsp, 1), OK>>

\* mutant of namespace_free: the root membrane is released with the namespace
namespace_free_releases_root(h, nsp) ==
  IF nsp = NULL THEN h
  ELSE LET root == h.namespace[nsp].root
           h1 == [h EXCEPT !.ns_freed = @ \cup {nsp}]
       IN IF root = NULL THEN h1
          ELSE [Emit(h1, Ev("free_membrane", root, NULL, 0)) EXCEPT !.freed = @ \cup {root}]

\* ggml_p9ml_namespace_free
ggml_p9ml_namespace_free(h, nsp) ==
  IF nsp = NULL THEN h
  ELSE [h EXCEPT !.ns_freed = @ \cup {nsp}]

\* ggml_p9ml_qat_config_free(config), config being one of the caller's
ggml_p9ml_qat_config_free(h, config) ==
  IF config = NoConfig THEN h
  ELSE [h EXCEPT !.config_freed = @ \cup {ConfigBlockOf(config)}]

(* ---- transformation passes ---------------------------------------------- *)
\* malloc(sizeof(struct ggml_p9ml_qat_config)): <<heap, succeeded>>; the
\* fail_at-th allocation of the call returns NULL
Malloc(h) ==
  LET h1 == [h EXCEPT !.mallocs = @ + 1]
  IN <<h1, h1.mallocs # h.fail_at>>

\* mutant of the test of line 228: the config is stored on every visit
AlwaysNeedsConfig(h, m) == TRUE

\* line 228: "if (!membrane->qat_config)"
NeedsConfig(h, m) == h.membrane[m].qat_config = NoConfig

\* the block that a successful malloc of a config returns: storage that is
\* free, here the lowest such block
NewConfigBlock(h) == CHOOSE b \in h.config_freed : \A x \in h.config_freed : b <= x

\* mutant of the config copy: a membrane without buffers gets no config
StoreConfigIfBuffers(h, m, config) ==
  IF h.membrane[m].num_objects = 0 THEN h
  ELSE LET b == NewConfigBlock(h)
       IN Emit([h EXCEPT !.membrane[m].qat_config = config,
                         !.membrane[m].config_block = b,
                         !.config_freed = @ \ {b}],
               Ev("store", m, NULL, b))

\* mutant of the config copy: the membrane keeps the caller's pointer
StoreConfigShared(h, m, config) ==
  Emit([h EXCEPT !.membrane[m].qat_config = config,
                 !.membrane[m].config_block = ConfigBlockOf(config)],
       Ev("store", m, NULL, ConfigBlockOf(config)))

\* lines 229-234: the block that malloc returned becomes the membrane's
\* stored config and *config is copied into it
StoreConfig(h, m, config) ==
  LET b == NewConfigBlock(h)
  IN Emit([h EXCEPT !.membrane[m].qat_config = config,
                    !.membrane[m].config_block = b,
                    !.config_freed = @ \ {b}],
          Ev("store", m, NULL, b))

\* "data[j] += ggml_p9ml_generate_noise(config->noise_scale)" on the float
\* view of the tensor's storage; slot j (from 1) covers bytes 4(j-1)..4j-1.
\* The value drawn is logged as a "draw" event, the addition as "noise".
\* A slot behind the storage is undefined behaviour: the process dies there,
\* or the access lands in storage next to the buffer, which the model does
\* not hold, and the loop carries on.
PerturbElement(h, m, t, j, config) ==
  IF j > Len(h.data[t])
  THEN [Emit(h, Ev("out_of_bounds", m, t, j))
          EXCEPT !.fault = IF h.ub = "crash" THEN "out_of_bounds" ELSE @]
  ELSE LET g == ggml_p9ml_generate_noise(h.seed, config.noise_scale)
       IN Emit(Emit([h EXCEPT !.seed = g[1],
                              !.data[t][j] = F32Round(h.data[t][j] + g[2])],
                    Ev("draw", m, t, g[2])),
               Ev("noise", m, t, j))

\* the loop "for (j = 0; j < n_elements; j++)" of lines 254-256
RECURSIVE PerturbElements(_, _, _, _, _)
PerturbElements(h, m, t, j, config) ==
  IF h.fault # "none" \/ j > ggml_nelements(t) THEN h
  ELSE PerturbElements(PerturbElement(h, m, t, j, config), m, t, j + 1, config)

\* mutant of the loop over objects: a skipped tensor ends the loop (break
\* in the place of continue)
RECURSIVE PerturbObjectsStopAtSkip(_, _, _, _)
PerturbObjectsStopAtSkip(h, m, i, config) ==
  IF h.fault # "none" \/ i > h.membrane[m].num_objects THEN h
  ELSE LET t == h.membrane[m].objects[i]
           skip == \/ t = NULL
                   \/ (TensorType(t) # GGML_TYPE_F32 /\ TensorType(t) # GGML_TYPE_F16)
                   \/ ~TensorHasData(t)
       IN IF skip THEN h
          ELSE PerturbObjectsStopAtSkip(PerturbElements(h, m, t, 1, config), m, i + 1, config)

\* the loop over membrane->objects of lines 238-260
RECURSIVE PerturbObjects(_, _, _, _)
PerturbObjects(h, m, i, config) ==
  IF h.fault # "none" \/ i > h.membrane[m].num_objects THEN h
  ELSE LET t == h.membrane[m].objects[i]
           skip == \/ t = NULL
                   \/ (TensorType(t) # GGML_TYPE_F32 /\ TensorType(t) # GGML_TYPE_F16)
                   \/ ~TensorHasData(t)
           h1 == IF skip THEN h ELSE PerturbElements(h, m, t, 1, config)
       IN PerturbObjects(h1, m, i + 1, config)

RECURSIVE ggml_p9ml_apply_data_free_qat(_, _, _, _)
RECURSIVE qat_children(_, _, _, _, _)

\* mutant of apply_data_free_qat: the failure of a call on a child is
\* returned to the caller
apply_returns_failure_of_child(h, m, config, depth) ==
  IF m = NULL \/ config = NoConfig THEN <<h, ERR>>
  ELSE IF depth > MaxDepth THEN <<[h EXCEPT !.fault = "stack_overflow"], ERR>>
  ELSE LET h0 == Emit(Deref(h, m), Ev("visit", m, NULL, 0))
           a == Malloc(h0)
           needs == NeedsConfig(h0, m)
           h1 == IF needs THEN StoreConfig(a[1], m, config) ELSE h0
           h2 == PerturbObjects(h1, m, 1, config)
           h3 == qat_children(h2, m, 1, config, depth)
       IN IF h0.fault # "none" THEN <<h0, ERR>>
          ELSE IF needs /\ ~a[2] THEN <<a[1], ERR>>
          ELSE <<h3, IF h3.fail_at > 0 /\ h3.mallocs >= h3.fail_at THEN ERR ELSE OK>>

\* ggml_p9ml_apply_data_free_qat: <<heap, return code>>
ggml_p9ml_apply_data_free_qat(h, m, config, depth) ==
  IF m = NULL \/ config = NoConfig THEN <<h, ERR>>
  ELSE IF depth > MaxDepth THEN <<[h EXCEPT !.fault = "stack_overflow"], ERR>>
  ELSE LET h0 == Emit(Deref(h, m), Ev("visit", m, NULL, 0))
           a == Malloc(h0)
           needs == NeedsConfig(h0, m)
           h1 == IF needs THEN StoreConfig(a[1], m, config) ELSE h0
           h2 == PerturbObjects(h1, m, 1, config)
       IN IF h0.fault # "none" THEN <<h0, ERR>>
          ELSE IF needs /\ ~a[2] THEN <<a[1], ERR>>
          ELSE <<qat_children(h2, m, 1, config, depth), OK>>

\* mutant of the loop over children: when the call on a child fails, the
\* membrane's own stored config is taken back and the loop ends
qat_children_undoes_on_failure(h, m, i, config, depth) ==
  IF h.fault # "none" \/ i > h.membrane[m].num_children THEN h
  ELSE LET r == ggml_p9ml_apply_data_free_qat(h, h.membrane[m].children[i], config, depth + 1)
       IN IF r[2] = ERR
          THEN [r[1] EXCEPT !.membrane[m].qat_config = NoConfig,
                            !.membrane[m].config_block = NULL,
                            !.config_freed = @ \cup {r[1].membrane[m].config_block}]
          ELSE qat_children(r[1], m, i + 1, config, depth)

\* lines 263-265: the return value of the recursive call is dropped
qat_children(h, m, i, config, depth) ==
  IF h.fault # "none" \/ i > h.membrane[m].num_children THEN h
  ELSE qat_children(
         ggml_p9ml_apply_data_free_qat(h, h.membrane[m].children[i], config, depth + 1)[1],
         m, i + 1, config, depth)

\* n_tiles of lines 335-336
NumTiles(n_elements, tile_size) == (n_elements + tile_size - 1) \div tile_size
\* start and end of tile number `tile` (from 0), lines 339-340
TileStart(tile, tile_size) == tile * tile_size
\* mutant of the end of a tile: it is not cut at n_elements
TileEndNotCut(tile, tile_size, n_elements) ==
  TileStart(tile, tile_size) + tile_size
TileEnd(tile, tile_size, n_elements) ==
  IF TileStart(tile, tile_size) + tile_size < n_elements
  THEN TileStart(tile, tile_size) + tile_size
  ELSE n_elements

\* the loop over membrane->objects of lines 329-347; a tensor's tiles are
\* logged as their number
RECURSIVE TileObjects(_, _, _, _)
TileObjects(h, m, i, config) ==
  IF i > h.membrane[m].num_objects THEN h
  ELSE LET t == h.membrane[m].objects[i]
           h1 == IF t = NULL THEN h
                 ELSE Emit(h, Ev("tiles", m, t, NumTiles(ggml_nelements(t), config.tile_size)))
       IN TileObjects(h1, m, i + 1, config)

\* ggml_p9ml_forward_tiled_qat(membrane, config, reference); the reference
\* tensor is not read
ggml_p9ml_forward_tiled_qat(h, m, config) ==
  IF m = NULL \/ config = NoConfig THEN <<h, ERR>>
  ELSE LET h0 == Emit(Deref(h, m), Ev("visit", m, NULL, 0))
       IN IF h0.fault # "none" THEN <<h0, ERR>>
          ELSE <<TileObjects(h0, m, 1, config), OK>>

\* the loop over membrane->objects of lines 363-380; j is 1 for the "large"
\* branch and 0 for the other
RECURSIVE ClassifyObjects(_, _, _)
ClassifyObjects(h, m, i) ==
  IF i > h.membrane[m].num_objects THEN h
  ELSE LET t == h.membrane[m].objects[i]
           large == IF ggml_nelements(t) > LargeThreshold THEN 1 ELSE 0
           h1 == IF t = NULL THEN h ELSE Emit(h, Ev("classify", m, t, large))
       IN ClassifyObjects(h1, m, i + 1)

\* ggml_p9ml_mixed_precision_quantize(membrane, quality_threshold); the
\* threshold is not read
ggml_p9ml_mixed_precision_quantize(h, m) ==
  IF m = NULL THEN <<h, ERR>>
  ELSE LET h0 == Emit(Deref(h, m), Ev("visit", m, NULL, 0))
       IN IF h0.fault # "none" THEN <<h0, ERR>>
          ELSE <<ClassifyObjects(h0, m, 1), OK>>

RECURSIVE ggml_p9ml_membrane_evolve(_, _, _)
RECURSIVE evolve_children(_, _, _, _)

\* ggml_p9ml_membrane_evolve
ggml_p9ml_membrane_evolve(h, m, depth) ==
  IF m = NULL THEN <<h, ERR>>
  ELSE IF depth > MaxDepth THEN <<[h EXCEPT !.fault = "stack_overflow"], ERR>>
  ELSE LET h0 == Emit(Deref(h, m), Ev("visit", m, NULL, 0))
       IN IF h0.fault # "none" THEN <<h0, ERR>>
          ELSE <<evolve_children(h0, m, 1, depth), OK>>

\* mutant of the loop of evolve: the last child is left out
RECURSIVE evolve_children_but_last(_, _, _, _)
evolve_children_but_last(h, m, i, depth) ==
  IF h.fault # "none" \/ i > h.membrane[m].num_children - 1 THEN h
  ELSE evolve_children_but_last(
         ggml_p9ml_membrane_evolve(h, h.membrane[m].children[i], depth + 1)[1],
         m, i + 1, depth)

\* lines 404-406
evolve_children(h, m, i, depth) ==
  IF h.fault # "none" \/ i > h.membrane[m].num_children THEN h
  ELSE evolve_children(
         ggml_p9ml_membrane_evolve(h, h.membrane[m].children[i], depth + 1)[1],
         m, i + 1, depth)

(* ---- teardown ----------------------------------------------------------- *)
\* mutant of the release: the config copy is not freed
ReleaseMembraneLeaksConfig(h, m) ==
  [Emit(h, Ev("free_membrane", m, NULL, 0)) EXCEPT !.freed = @ \cup {m}]

\* lines 77-86: free the config copy if there is one, the arrays and the
\* membrane itself
ReleaseMembrane(h, m) ==
  LET b == h.membrane[m].config_block
      h1 == IF h.membrane[m].qat_config # NoConfig
            THEN [Emit(h, Ev("free_config", m, NULL, b))
                    EXCEPT !.config_freed = @ \cup {b}]
            ELSE h
  IN [Emit(h1, Ev("free_membrane", m, NULL, 0)) EXCEPT !.freed = @ \cup {m}]

RECURSIVE ggml_p9ml_membrane_free(_, _, _)
RECURSIVE free_children(_, _, _, _)

\* ggml_p9ml_membrane_free
ggml_p9ml_membrane_free(h, m, depth) ==
  IF m = NULL THEN h
  ELSE IF depth > MaxDepth THEN [h EXCEPT !.fault = "stack_overflow"]
  ELSE LET h0 == Deref(h, m)
           h1 == free_children(h0, m, 1, depth)
       IN IF h0.fault # "none" THEN h0
          ELSE IF h1.fault # "none" THEN h1
          ELSE ReleaseMembrane(h1, m)

\* lines 71-75
free_children(h, m, i, depth) ==
  IF h.fault # "none" \/ i > h.membrane[m].num_children THEN h
  ELSE LET c == h.membrane[m].children[i]
           h1 == IF c # NULL THEN ggml_p9ml_membrane_free(h, c, depth + 1) ELSE h
       IN free_children(h1, m, i + 1, depth)

(* ---- the API calls a caller makes --------------------------------------- *)
AddChild ==
  \E parent \in LiveMembraneArgs(2), child \in LiveMembraneArgs(2) :
    /\ Callable
    /\ LET r == ggml_p9ml_membrane_add_child(Heap("crash", 0), parent, child)
       IN Commit(Call("add_child", parent, child, NoConfig), r[1], r[2])

AddObject ==
  \E m \in LiveMembraneArgs(1), tensor \in TensorArgs :
    /\ Callable
    /\ LET r == ggml_p9ml_membrane_add_object(Heap("crash", 0), m, tensor)
       IN Commit(Call("add_object", m, tensor, NoConfig), r[1], r[2])

SetRoot ==
  \E nsp \in LiveNamespaceArgs, root \in LiveMembraneArgs(1), ub \in UBOutcomes :
    /\ Callable
    /\ LET r == ggml_p9ml_namespace_set_root(Heap(ub, 0), nsp, root)
       IN Commit(Call("set_root", root, nsp, NoConfig), r[1], r[2])

\* fail_at ranges over "no allocation fails" and each allocation of the call
ApplyDataFreeQat ==
  \E m \in LiveMembraneArgs(1), config \in LiveConfigArgs, ub \in UBOutcomes,
     fail_at \in 0..NumMembranes :
    /\ Callable
    /\ LET r == ggml_p9ml_apply_data_free_qat(Heap(ub, fail_at), m, config, 1)
       IN /\ fail_at <= r[1].mallocs
          /\ Commit(Call("apply_data_free_qat", m, fail_at, config), r[1], r[2])

ForwardTiledQat ==
  \E m \in LiveMembraneArgs(1), config \in LiveConfigArgs :
    /\ Callable
    /\ LET r == ggml_p9ml_forward_tiled_qat(Heap("crash", 0), m, config)
       IN Commit(Call("forward_tiled_qat", m, NULL, config), r[1], r[2])

MixedPrecisionQuantize ==
  \E m \in LiveMembraneArgs(1) :
    /\ Callable
    /\ LET r == ggml_p9ml_mixed_precision_quantize(Heap("crash", 0), m)
       IN Commit(Call("mixed_precision_quantize", m, NULL, NoConfig), r[1], r[2])

Evolve ==
  \E m \in LiveMembraneArgs(1), ub \in UBOutcomes :
    /\ Callable
    /\ LET r == ggml_p9ml_membrane_evolve(Heap(ub, 0), m, 1)
       IN Commit(Call("evolve", m, NULL, NoConfig), r[1], r[2])

\* the void functions leave the return code as it was
MembraneFree ==
  \E m \in LiveMembraneArgs(1), ub \in UBOutcomes :
    /\ Callable
    /\ Commit(Call("membrane_free", m, NULL, NoConfig),
              ggml_p9ml_membrane_free(Heap(ub, 0), m, 1), ret)

NamespaceFree ==
  \E nsp \in LiveNamespaceArgs :
    /\ Callable
    /\ Commit(Call("namespace_free", NULL, nsp, NoConfig),
              ggml_p9ml_namespace_free(Heap("crash", 0), nsp), ret)

Next ==
  \/ AddChild
  \/ AddObject
  \/ SetRoot
  \/ ApplyDataFreeQat
  \/ ForwardTiledQat
  \/ MixedPrecisionQuantize
  \/ Evolve
  \/ MembraneFree
  \/ NamespaceFree

Spec == Init /\ [][Next]_vars

(* ---- construction with failing allocations ------------------------------ *)
\* the allocations of ggml_p9ml_membrane_new: the membrane (line 35) and the
\* children and objects arrays (lines 478-479)
Allocations == {"membrane", "children", "objects"}
\* the levels a caller passes
Levels == {0, 2}

\* static ggml_p9ml_membrane_init_arrays(membrane), the allocations in
\* `fails` returning NULL: a NULL array is <<>>
ggml_p9ml_membrane_init_arrays(mem, fails) ==
  [mem EXCEPT !.children = IF "children" \in fails THEN <<>> ELSE @,
              !.objects = IF "objects" \in fails THEN <<>> ELSE @]

\* the storage malloc returns for a membrane: the lowest free block
NewBlock == CHOOSE m \in freed : \A x \in freed : m <= x

\* ggml_p9ml_membrane_new(name, level, ctx): call.m is the pointer returned
\* and call.x the level
MembraneNew ==
  \E level \in Levels, fails \in SUBSET Allocations :
    /\ Callable
    /\ freed # {}
    /\ ("membrane" \in fails) => fails = {"membrane"}
    /\ LET h == Heap("crash", 0)
           made == ggml_p9ml_membrane_init_arrays(ggml_p9ml_membrane_new(level), fails)
       IN IF "membrane" \in fails
          THEN Commit(Call("membrane_new", NULL, level, NoConfig), h, ret)
          ELSE Commit(Call("membrane_new", NewBlock, level, NoConfig),
                      [h EXCEPT !.membrane[NewBlock] = made,
                                !.freed = @ \ {NewBlock}],
                      ret)

\* no membrane is constructed yet: all storage is free
InitConstruct ==
  /\ membrane = [m \in Membranes |-> ggml_p9ml_membrane_new(0)]
  /\ namespace = [n \in Namespaces |-> ggml_p9ml_namespace_new]
  /\ data = [t \in Tensors |-> IF TensorHasData(t)
                                THEN [j \in 1..FloatSlots(t) |-> 0]
                                ELSE <<>>]
  /\ seed = <<0, 12345>>
  /\ freed = Membranes
  /\ ns_freed = {}
  /\ config_freed = CopyBlocks
  /\ call = Call("none", NULL, NULL, NoConfig)
  /\ log = <<>>
  /\ ret = OK
  /\ fault = "none"
  /\ steps = 0

NextConstruct ==
  \/ MembraneNew
  \/ AddChild
  \/ AddObject

SpecConstruct == InitConstruct /\ [][NextConstruct]_vars

(* ---- perturbation of a buffer from any seed ----------------------------- *)
\* The static seed is what the draws made so far in the process left: the
\* generator has full period, so every 32-bit value occurs.  The samples are
\* the seeds whose next value, or the one after, has low 31 bits 0, 1,
\* 2^29 - 1, 2^29, 2^30, 2^31 - 65, 2^31 - 64 and 2^31 - 1, and the seed of a
\* new process.
SeedSamples ==
  { <<64631, 42627>>, <<35889, 39218>>, <<31863, 42627>>, <<3121, 39218>>,
    <<36285, 47902>>, <<12229, 857>>, <<3517, 47902>>, <<44997, 857>>,
    <<52732, 52547>>, <<61708, 8946>>, <<57154, 57822>>, <<5279, 36121>>,
    <<15479, 42627>>, <<52273, 39218>>, <<40055, 42627>>, <<44081, 39218>>,
    <<44477, 47902>>, <<53189, 857>>, <<60209, 37352>>, <<26782, 12043>>,
    <<0, 12345>> }
\* element values the caller wrote into the buffer, in units of 2^-24:
\* 0.0, 1.0, -3.0 and 0.5 + 3 * 2^-24 with either sign
ValueSamples == {0, 2^24, -3 * (2^24), (2^23) + 3, -((2^23) + 3)}
\* configs of noise scale 0.0, 1.0 and 3.0
NoiseConfigs == Configs \cup {ggml_p9ml_qat_config_new("Q8_0", 3)}

\* the state after membrane 1 was given the float32 tensor 1 by add_object
InitNoise ==
  /\ membrane = [m \in Membranes |->
                   IF m = 1
                   THEN [ggml_p9ml_membrane_new(0) EXCEPT !.objects[1] = 1,
                                                         !.num_objects = 1]
                   ELSE ggml_p9ml_membrane_new(0)]
  /\ namespace = [n \in Namespaces |-> ggml_p9ml_namespace_new]
  /\ \E a \in ValueSamples, b \in ValueSamples :
       data = [t \in Tensors |-> IF t = 1 THEN <<a, b>>
                                 ELSE IF TensorHasData(t)
                                 THEN [j \in 1..FloatSlots(t) |-> 0]
                                 ELSE <<>>]
  /\ seed \in SeedSamples
  /\ freed = {}
  /\ ns_freed = {}
  /\ config_freed = CopyBlocks
  /\ call = Call("add_object", 1, 1, NoConfig)
  /\ log = <<>>
  /\ ret = OK
  /\ fault = "none"
  /\ steps = 1

\* ggml_p9ml_apply_data_free_qat called with any of the noise scales, every
\* allocation succeeding
ApplyNoise ==
  \E m \in LiveMembraneArgs(1), config \in NoiseConfigs, ub \in {"crash", "stale"} :
    /\ Callable
    /\ LET r == ggml_p9ml_apply_data_free_qat(Heap(ub, 0), m, config, 1)
       IN Commit(Call("apply_data_free_qat", m, 0, config), r[1], r[2])

NextNoise == ApplyNoise

SpecNoise == InitNoise /\ [][NextNoise]_vars

(* ---- configs over a tree that add_child built --------------------------- *)
\* the add_child calls that built the structure: a chain of three, a parent
\* of two, and a parent of one beside a single membrane
Shapes == { <<<<1, 2>>, <<2, 3>>>>, <<<<1, 2>>, <<1, 3>>>>, <<<<1, 2>>>> }

RECURSIVE Built(_, _, _)
Built(h, shape, i) ==
  IF i > Len(shape) THEN h
  ELSE Built(ggml_p9ml_membrane_add_child(h, shape[i][1], shape[i][2])[1], shape, i + 1)

InitConfig ==
  /\ namespace = [n \in Namespaces |-> ggml_p9ml_namespace_new]
  /\ data = [t \in Tensors |-> IF TensorHasData(t)
                                THEN [j \in 1..FloatSlots(t) |-> 0]
                                ELSE <<>>]
  /\ seed = <<0, 12345>>
  /\ freed = {}
  /\ ns_freed = {}
  /\ config_freed = CopyBlocks
  /\ \E shape \in Shapes :
       /\ membrane = Built([membrane |-> [m \in Membranes |-> ggml_p9ml_membrane_new(0)],
                            fault |-> "none", log |-> <<>>], shape, 1).membrane
       /\ call = Call("add_child", shape[Len(shape)][1], shape[Len(shape)][2], NoConfig)
  /\ log = <<>>
  /\ ret = OK
  /\ fault = "none"
  /\ steps = 0

\* the caller releases one of its configs
QatConfigFree ==
  \E config \in LiveConfigArgs :
    /\ Callable
    /\ Commit(Call("qat_config_free", NULL, NULL, config),
              ggml_p9ml_qat_config_free(Heap("crash", 0), config), ret)

\* the caller releases a tree through its root
TreeFree ==
  \E m \in LiveMembraneArgs(1), ub \in UBOutcomes :
    /\ Callable
    /\ m # NULL => membrane[m].parent = NULL
    /\ Commit(Call("membrane_free", m, NULL, NoConfig),
              ggml_p9ml_membrane_free(Heap(ub, 0), m, 1), ret)

NextConfig ==
  \/ ApplyDataFreeQat
  \/ QatConfigFree
  \/ TreeFree

SpecConfig == InitConfig /\ [][NextConfig]_vars

(* ---- add_child and set_root alone ---------------------------------------- *)
\* any sequence of add_child and set_root calls, from new membranes or from
\* a structure that add_child built
InitNs == Init \/ InitConfig

NextNs ==
  \/ AddChild
  \/ SetRoot

SpecNs == InitNs /\ [][NextNs]_vars

(* ---- perturbation of float32 and float16 buffers ------------------------ *)
\* the objects list of membrane 1 after add_object calls with the float32
\* tensor 1 and the float16 tensor 4
HalfObjects == { <<1>>, <<4>>, <<1, 4>>, <<4, 1>> }

InitHalf ==
  /\ \E objs \in HalfObjects :
       /\ membrane = [m \in Membranes |->
                        IF m = 1
                        THEN [ggml_p9ml_membrane_new(0) EXCEPT
                                !.objects = [i \in 1..MaxObjects |->
                                               IF i <= Len(objs) THEN objs[i] ELSE NULL],
                                !.num_objects = Len(objs)]
                        ELSE ggml_p9ml_membrane_new(0)]
       /\ call = Call("add_object", 1, objs[Len(objs)], NoConfig)
  /\ namespace = [n \in Namespaces |-> ggml_p9ml_namespace_new]
  /\ data = [t \in Tensors |-> IF TensorHasData(t)
                                THEN [j \in 1..FloatSlots(t) |-> 0]
                                ELSE <<>>]
  /\ seed \in SeedSamples
  /\ freed = {}
  /\ ns_freed = {}
  /\ config_freed = CopyBlocks
  /\ log = <<>>
  /\ ret = OK
  /\ fault = "none"
  /\ steps = membrane[1].num_objects

NextHalf == ApplyNoise

SpecHalf == InitHalf /\ [][NextHalf]_vars

(* ---- the tile loop of forward_tiled_qat --------------------------------- *)
\* The loop of lines 338-345 over one tensor, for any element count and any
\* tile size of at least one: call.m is n_elements, call.x is tile_size and
\* the log holds the tiles processed so far, tile number in m, start in t,
\* end in j.
InitTiles ==
  /\ membrane = [m \in Membranes |-> ggml_p9ml_membrane_new(0)]
  /\ namespace = [n \in Namespaces |-> ggml_p9ml_namespace_new]
  /\ data = [t \in Tensors |-> IF TensorHasData(t)
                                THEN [j \in 1..FloatSlots(t) |-> 0]
                                ELSE <<>>]
  /\ seed = <<0, 12345>>
  /\ freed = {}
  /\ ns_freed = {}
  /\ config_freed = CopyBlocks
  /\ \E n_elements \in 0..MaxElements, tile_size \in 1..MaxTileSize :
       call = Call("tile_loop", n_elements, tile_size, NoConfig)
  /\ log = <<>>
  /\ ret = OK
  /\ fault = "none"
  /\ steps = 0

\* one turn of "for (tile = 0; tile < n_tiles; tile++)"
ProcessTile ==
  LET tile == Len(log)
  IN /\ tile < NumTiles(call.m, call.x)
     /\ log' = Append(log, Ev("tile", tile, TileStart(tile, call.x),
                              TileEnd(tile, call.x, call.m)))
     /\ UNCHANGED <<membrane, namespace, data, seed, freed, ns_freed,
                    config_freed, call, ret, fault, steps>>

NextTiles == ProcessTile

SpecTiles == InitTiles /\ [][NextTiles]_vars

(* ---- structure of the hierarchy ----------------------------------------- *)
\* the children list of m: the first num_children entries of its array
ChildList(m) == [i \in 1..membrane[m].num_children |-> membrane[m].children[i]]
Children(m) == {membrane[m].children[i] : i \in 1..membrane[m].num_children}
ObjectsOf(m) == {membrane[m].objects[i] : i \in 1..membrane[m].num_objects}

\* the membranes reachable from the set S through children lists
RECURSIVE ReachFrom(_)
ReachFrom(S) ==
  LET T == S \cup UNION {Children(m) : m \in S}
  IN IF T = S THEN S ELSE ReachFrom(T)
Reach(root) == ReachFrom({root})

\* the places <<p, i>> where c stands in a children list
Slots(c) ==
  {s \in Membranes \X (1..MaxChildren) :
     s[2] <= membrane[s[1]].num_children /\ membrane[s[1]].children[s[2]] = c}

Range(q) == {q[i] : i \in 1..Len(q)}
\* the events of one kind in a log, and the membranes they are about
EventsOf(lg, kind) == SelectSeq(lg, LAMBDA e : e.kind = kind)
MembranesOf(q) == [i \in 1..Len(q) |-> q[i].m]

\* depth-first preorder from root, children in insertion order, every
\* reachable membrane once
RECURSIVE DfsFrom(_, _)
DfsFrom(stack, out) ==
  IF stack = <<>> THEN out
  ELSE IF Head(stack) \in Range(out) THEN DfsFrom(Tail(stack), out)
  ELSE DfsFrom(ChildList(Head(stack)) \o Tail(stack), Append(out, Head(stack)))
DfsPreorder(root) == DfsFrom(<<root>>, <<>>)

\* the structure below root is a strict tree of membranes that are not
\* released: no membrane below root stands in two places, root in none
TreeBelow(root) ==
  \A m \in Reach(root) :
    Cardinality({s \in Slots(m) : s[1] \in Reach(root)}) = IF m = root THEN 0 ELSE 1
StrictTree(root) == Reach(root) \cap freed = {} /\ TreeBelow(root)

\* event k of lg is an action on a membrane's own config or buffers, and the
\* visit it belongs to is the latest visit before it
InOwnVisit(lg, k) ==
  \E v \in 1..(k - 1) :
    /\ lg[v].kind = "visit" /\ lg[v].m = lg[k].m
    /\ \A u \in (v + 1)..(k - 1) : lg[u].kind # "visit"

(* ---- claims ------------------------------------------------------------- *)

\* C1: after any sequence of successful add_child calls the structure is
\* acyclic, and every membrane that has a parent or stands in a children
\* list stands in exactly one list, exactly once, the list of the membrane
\* in its parent field.
C1_TreeShape ==
  /\ \A m \in Membranes : m \notin ReachFrom(Children(m))
  /\ \A c \in Membranes :
       (membrane[c].parent # NULL \/ Slots(c) # {}) =>
         /\ Cardinality(Slots(c)) = 1
         /\ \A s \in Slots(c) : s[1] = membrane[c].parent

\* C2: right after a successful set_root(ns, root), ns.root is root and every
\* membrane reachable from root has namespace_ref ns.
C2_SetRootPropagates ==
  (call.op = "set_root" /\ fault = "none" /\ ret = OK) =>
    /\ namespace[call.x].root = call.m
    /\ \A m \in Reach(call.m) : membrane[m].ns = call.x

\* C2 witness: a successful set_root on a root with descendants that another
\* namespace had as its root before
C2_Witness ==
  /\ call.op = "set_root" /\ fault = "none" /\ ret = OK
  /\ Cardinality(Reach(call.m)) >= 2
  /\ \E n \in Namespaces : n # call.x /\ namespace[n].root = call.m

\* C3: add_child writes the namespace reference of the attached membrane
\* only, giving it the parent's reference; a membrane's namespace reference
\* changes in no other way than by being attached itself or by a set_root on
\* a membrane from which it is reachable.
C3_NamespaceSnapshot ==
  [][/\ (call'.op = "add_child" /\ ret' = OK) =>
          membrane'[call'.x].ns = membrane[call'.m].ns
     /\ \A m \in Membranes :
          membrane'[m].ns # membrane[m].ns =>
            \/ call'.op = "add_child" /\ ret' = OK /\ call'.x = m
            \/ /\ call'.op = "set_root"
               /\ call'.m # NULL /\ call'.x # NULL
               /\ m \in Reach(call'.m)
               /\ membrane'[m].ns = call'.x]_vars

\* C3 witness: C was attached to P under namespace N1, then P was attached
\* under Q whose namespace is another one; P has Q's, C still has N1
C3_Witness ==
  \E c \in Membranes, p \in Membranes, q \in Membranes :
    /\ call.op = "add_child" /\ ret = OK /\ call.m = q /\ call.x = p
    /\ c \in Children(p) /\ membrane[c].parent = p
    /\ c # p /\ p # q /\ c # q
    /\ membrane[c].ns # NULL
    /\ membrane[p].ns = membrane[q].ns
    /\ membrane[p].ns # membrane[c].ns

\* C4: add_child on a membrane that holds max_children children, and
\* add_object on one that holds max_objects objects, return an error and
\* change nothing, every time they are called.
C4_CapacityRejects ==
  [][/\ ( /\ call'.op = "add_child"
          /\ call'.m # NULL /\ call'.x # NULL
          /\ membrane[call'.m].num_children >= membrane[call'.m].max_children ) =>
          (ret' = ERR /\ membrane' = membrane /\ namespace' = namespace /\ data' = data)
     /\ ( /\ call'.op = "add_object"
          /\ call'.m # NULL /\ call'.x # NULL
          /\ membrane[call'.m].num_objects >= membrane[call'.m].max_objects ) =>
          (ret' = ERR /\ membrane' = membrane /\ namespace' = namespace /\ data' = data)]_vars

\* C4 witness: add_child was just rejected by a full parent
C4_Witness ==
  /\ call.op = "add_child" /\ ret = ERR
  /\ call.m # NULL /\ call.x # NULL
  /\ membrane[call.m].num_children = membrane[call.m].max_children
  /\ membrane[call.x].parent # call.m

\* C5: a stored config is never replaced (first write wins), and the config
\* a membrane gets is the config of the apply_data_free_qat call that first
\* reached it.
C5_FirstWriteWins ==
  [][\A m \in Membranes :
       /\ membrane[m].qat_config # NoConfig =>
            membrane'[m].qat_config = membrane[m].qat_config
       /\ (membrane[m].qat_config = NoConfig /\ membrane'[m].qat_config # NoConfig) =>
            (call'.op = "apply_data_free_qat" /\ membrane'[m].qat_config = call'.cfg)]_vars

\* C5 witness: a call with another config has reached, as a descendant of
\* its root, a membrane that already had a stored config
C5_Witness ==
  /\ call.op = "apply_data_free_qat" /\ fault = "none" /\ ret = OK
  /\ \E m \in Membranes \ {call.m} :
       /\ m \in Range(MembranesOf(EventsOf(log, "visit")))
       /\ membrane[m].qat_config # NoConfig
       /\ membrane[m].qat_config # call.cfg

\* C6: apply_data_free_qat(root, config), with every allocation succeeding,
\* visits every membrane reachable from root exactly once in depth-first
\* preorder, children in insertion order, and a membrane's config store and
\* perturbations come before the visit of any other membrane.
C6_PreorderOnce ==
  ( /\ call.op = "apply_data_free_qat"
    /\ call.m # NULL /\ call.cfg # NoConfig /\ call.x = 0
    /\ fault = "none" ) =>
    /\ ret = OK
    /\ MembranesOf(EventsOf(log, "visit")) = DfsPreorder(call.m)
    /\ \A k \in 1..Len(log) :
         log[k].kind \in {"store", "noise"} => InOwnVisit(log, k)

\* the same statement for the calls whose root has a strict tree below it:
\* what C6 says holds there
C6_OnStrictTrees == (call.m # NULL /\ StrictTree(call.m)) => C6_PreorderOnce

\* C7: forward_tiled_qat(root, config, reference) with root and config
\* present processes the tiles of every buffer of every membrane reachable
\* from root.
C7_TilesWholeTree ==
  ( /\ call.op = "forward_tiled_qat"
    /\ call.m # NULL /\ call.cfg # NoConfig
    /\ fault = "none" ) =>
    /\ ret = OK
    /\ \A m \in Reach(call.m) : \A t \in ObjectsOf(m) :
         Ev("tiles", m, t, NumTiles(ggml_nelements(t), call.cfg.tile_size)) \in Range(log)

\* C8: mixed_precision_quantize(root, quality_threshold) with root present
\* classifies (large above 1000000 elements) every buffer of every membrane
\* reachable from root.
C8_ClassifiesWholeTree ==
  (call.op = "mixed_precision_quantize" /\ call.m # NULL /\ fault = "none") =>
    /\ ret = OK
    /\ \A m \in Reach(call.m) : \A t \in ObjectsOf(m) :
         Ev("classify", m, t, IF ggml_nelements(t) > 1000000 THEN 1 ELSE 0) \in Range(log)

\* C9: evolve with an absent root returns an error; evolve(root) that returns
\* returns success and has reached every membrane reachable from root; and
\* evolve changes no membrane, buffer or namespace.
C9_EvolveMutatesNothing ==
  [][call'.op = "evolve" =>
       /\ membrane' = membrane /\ namespace' = namespace /\ data' = data
       /\ seed' = seed /\ freed' = freed /\ ns_freed' = ns_freed
       /\ call'.m = NULL => ret' = ERR
       /\ (call'.m # NULL /\ fault' = "none") =>
            /\ ret' = OK
            /\ Reach(call'.m) \subseteq Range(MembranesOf(EventsOf(log', "visit")))]_vars

\* C9 witness: evolve returned from a root with a descendant, where some
\* membrane of the hierarchy holds a buffer or a stored config
C9_Witness ==
  /\ call.op = "evolve" /\ call.m # NULL /\ fault = "none" /\ ret = OK
  /\ Cardinality(Reach(call.m)) >= 2
  /\ \E m \in Reach(call.m) :
       membrane[m].num_objects > 0 \/ membrane[m].qat_config # NoConfig

\* C10: freeing a root whose structure is a strict tree of live membranes
\* with N descendants releases exactly those N+1 membranes, each once and
\* every child before its parent, releases every stored config copy once,
\* and releases or modifies no buffer and no namespace.
C10_TeardownOfStrictTree ==
  [][(call'.op = "membrane_free" /\ call'.m # NULL /\ StrictTree(call'.m)) =>
       LET T == Reach(call'.m)
           rel == MembranesOf(EventsOf(log', "free_membrane"))
           cfg == MembranesOf(EventsOf(log', "free_config"))
       IN /\ fault' = "none"
          /\ Len(rel) = Cardinality(T) /\ Range(rel) = T
          /\ \A i \in 1..Len(rel) : \A j \in 1..Len(rel) :
               rel[j] \in Children(rel[i]) => j < i
          /\ Len(cfg) = Cardinality(Range(cfg))
          /\ Range(cfg) = {m \in T : membrane[m].qat_config # NoConfig}
          /\ freed' = freed \cup T
          /\ data' = data /\ seed' = seed
          /\ namespace' = namespace /\ ns_freed' = ns_freed]_vars

\* C10 witness: a root with a descendant in a strict tree, one of the two
\* with a stored config, has been freed: two membranes and a config released
C10_Witness ==
  /\ call.op = "membrane_free" /\ call.m # NULL /\ fault = "none"
  /\ TreeBelow(call.m)
  /\ Cardinality(Reach(call.m)) >= 2
  /\ Len(EventsOf(log, "free_membrane")) = Cardinality(Reach(call.m))
  /\ Len(EventsOf(log, "free_config")) >= 1

Abs(n) == IF n < 0 THEN -n ELSE n
\* the number of additions a call made to element j of tensor t
Additions(lg, t, j) ==
  Cardinality({k \in 1..Len(lg) : lg[k].kind = "noise" /\ lg[k].t = t /\ lg[k].j = j})

\* C12: every perturbation apply_data_free_qat adds lies in [-s, +s] for
\* the noise scale s of the call, whatever the seed; an element that was v0
\* and was perturbed once ends in the exact interval [v0 - s, v0 + s]; and
\* with s = 0 every element is unchanged.
C12_NoiseBound ==
  [][(call'.op = "apply_data_free_qat" /\ call'.cfg # NoConfig /\ fault' = "none") =>
       LET s == call'.cfg.noise_scale * (2^24)
       IN /\ \A k \in 1..Len(log') : log'[k].kind = "draw" => Abs(log'[k].j) <= s
          /\ \A t \in Tensors : \A j \in 1..Len(data[t]) :
               /\ Additions(log', t, j) = 1 =>
                    (data[t][j] - s <= data'[t][j] /\ data'[t][j] <= data[t][j] + s)
               /\ s = 0 => data'[t][j] = data[t][j]]_vars

\* C12 as amended: the element ends between the float32 values of v0 - s
\* and v0 + s
C12_NoiseBoundInFloat32 ==
  [][(call'.op = "apply_data_free_qat" /\ call'.cfg # NoConfig /\ fault' = "none") =>
       LET s == call'.cfg.noise_scale * (2^24)
       IN /\ \A k \in 1..Len(log') : log'[k].kind = "draw" => Abs(log'[k].j) <= s
          /\ \A t \in Tensors : \A j \in 1..Len(data[t]) :
               /\ Additions(log', t, j) = 1 =>
                    /\ F32Round(data[t][j] - s) <= data'[t][j]
                    /\ data'[t][j] <= F32Round(data[t][j] + s)
               /\ s = 0 => data'[t][j] = data[t][j]]_vars

\* C12 witness: a call of noise scale s > 0 has drawn exactly -s or +s and
\* has added a draw to each element of the buffer
C12_Witness ==
  /\ call.op = "apply_data_free_qat" /\ fault = "none" /\ ret = OK
  /\ call.cfg.noise_scale > 0
  /\ \E k \in 1..Len(log) :
       log[k].kind = "draw" /\ Abs(log[k].j) = call.cfg.noise_scale * (2^24)
  /\ \A j \in 1..Len(data[1]) : Additions(log, 1, j) = 1

\* a buffer the type-skip rule applies to: its element type is neither
\* 32-bit nor 16-bit float, or it has no data
Skipped(t) ==
  \/ (TensorType(t) # GGML_TYPE_F32 /\ TensorType(t) # GGML_TYPE_F16)
  \/ ~TensorHasData(t)

\* C13: apply_data_free_qat leaves every buffer of a type other than 32-bit
\* and 16-bit float, and every buffer without data, as it was and adds
\* nothing to it; skipping is no error and stops nothing: the call returns
\* success and every element of every other buffer of every reachable
\* membrane is perturbed, also behind a skipped buffer.
C13_TypeSkip ==
  [][(call'.op = "apply_data_free_qat" /\ fault' = "none") =>
       /\ \A t \in Tensors : Skipped(t) =>
            /\ data'[t] = data[t]
            /\ \A k \in 1..Len(log') : log'[k].t # t
       /\ (call'.m # NULL /\ call'.cfg # NoConfig /\ call'.x = 0) =>
            /\ ret' = OK
            /\ \A m \in Reach(call'.m) : \A t \in ObjectsOf(m) :
                 ~Skipped(t) =>
                   \A j \in 1..ggml_nelements(t) : Additions(log', t, j) >= 1]_vars

\* C13 witness: a membrane holds a skipped buffer in front of a float
\* buffer with data, and a call has perturbed the float buffer
C13_Witness ==
  /\ call.op = "apply_data_free_qat" /\ call.m # NULL /\ fault = "none" /\ ret = OK
  /\ membrane[call.m].num_objects = 2
  /\ Skipped(membrane[call.m].objects[1])
  /\ ~Skipped(membrane[call.m].objects[2])
  /\ \A j \in 1..ggml_nelements(membrane[call.m].objects[2]) :
       Additions(log, membrane[call.m].objects[2], j) = 1

\* C14: a successful add_child(parent, child) puts child behind the entries
\* the children list had, which stay as they were, adds one to the parent's
\* child count, sets child.parent to parent and child.ns to the reference
\* the parent had when called, and changes nothing else in any membrane.
C14_AddChildAppends ==
  [][(call'.op = "add_child" /\ ret' = OK) =>
       LET p == call'.m
           c == call'.x
           n == membrane[p].num_children
       IN /\ membrane'[p].num_children = n + 1
          /\ membrane'[p].children[n + 1] = c
          /\ \A i \in 1..MaxChildren :
               i # n + 1 => membrane'[p].children[i] = membrane[p].children[i]
          /\ membrane'[c].parent = p
          /\ membrane'[c].ns = membrane[p].ns
          /\ \A m \in Membranes :
               /\ m # c => /\ membrane'[m].parent = membrane[m].parent
                           /\ membrane'[m].ns = membrane[m].ns
               /\ m # p => /\ membrane'[m].num_children = membrane[m].num_children
                           /\ membrane'[m].children = membrane[m].children
               /\ membrane'[m].level = membrane[m].level
               /\ membrane'[m].max_children = membrane[m].max_children
               /\ membrane'[m].num_objects = membrane[m].num_objects
               /\ membrane'[m].max_objects = membrane[m].max_objects
               /\ membrane'[m].objects = membrane[m].objects
               /\ membrane'[m].qat_config = membrane[m].qat_config
          /\ namespace' = namespace /\ data' = data /\ seed' = seed
          /\ freed' = freed /\ ns_freed' = ns_freed]_vars

\* C14 witness: a second child was attached to a parent that has a
\* namespace; the first child is still in front of it
C14_Witness ==
  /\ call.op = "add_child" /\ ret = OK /\ fault = "none"
  /\ membrane[call.m].num_children = 2
  /\ membrane[call.m].children[2] = call.x
  /\ membrane[call.m].children[1] # call.x
  /\ membrane[call.m].ns # NULL
  /\ membrane[call.x].ns = membrane[call.m].ns
  /\ membrane[call.x].parent = call.m

\* C15: set_root with an absent root or an absent namespace returns an
\* error and changes nothing: the namespace keeps its root and no membrane's
\* namespace reference is written.
C15_SetRootRejectsNull ==
  [][(call'.op = "set_root" /\ (call'.m = NULL \/ call'.x = NULL)) =>
       /\ ret' = ERR /\ fault' = "none"
       /\ namespace' = namespace /\ membrane' = membrane
       /\ data' = data /\ seed' = seed
       /\ freed' = freed /\ ns_freed' = ns_freed
       /\ log' = <<>>]_vars

\* C15 witness: set_root with an absent root was rejected by a namespace
\* that has a root, and the root and its namespace reference are in place
C15_Witness ==
  /\ call.op = "set_root" /\ call.m = NULL /\ call.x # NULL /\ ret = ERR
  /\ namespace[call.x].root # NULL
  /\ membrane[namespace[call.x].root].ns = call.x

\* C16: namespace_free releases the namespace and nothing else: no
\* membrane, stored config or buffer is released or changed, also when the
\* root tree was freed before; and membrane_free of a tree whose namespace
\* was freed before releases the membranes of the tree once each and no
\* namespace: in either order every object is released exactly once.
C16_NamespaceFreeOnly ==
  [][/\ call'.op = "namespace_free" =>
          /\ fault' = "none" /\ log' = <<>>
          /\ ns_freed' = ns_freed \cup ({call'.x} \ {NULL})
          /\ membrane' = membrane /\ freed' = freed
          /\ data' = data /\ seed' = seed /\ namespace' = namespace
     /\ ( /\ call'.op = "membrane_free" /\ call'.m # NULL
          /\ StrictTree(call'.m)
          /\ membrane[call'.m].ns \in ns_freed ) =>
          LET rel == MembranesOf(EventsOf(log', "free_membrane"))
          IN /\ fault' = "none"
             /\ Range(rel) = Reach(call'.m)
             /\ Len(rel) = Cardinality(Reach(call'.m))
             /\ freed' = freed \cup Reach(call'.m)
             /\ ns_freed' = ns_freed /\ namespace' = namespace]_vars

\* C16 witness: the root tree of a namespace was freed, then the namespace:
\* both are released and the freed root was not read
C16_Witness ==
  /\ call.op = "namespace_free" /\ call.x # NULL /\ fault = "none"
  /\ call.x \in ns_freed
  /\ namespace[call.x].root # NULL
  /\ namespace[call.x].root \in freed
  /\ membrane[namespace[call.x].root].ns = call.x

\* the other order: a namespace was freed, then its root tree
C16_NamespaceFirst ==
  /\ call.op = "membrane_free" /\ call.m # NULL /\ fault = "none"
  /\ call.m \in freed
  /\ membrane[call.m].ns \in ns_freed
  /\ namespace[membrane[call.m].ns].root = call.m

\* C17: apply_data_free_qat fails only if root or config is absent: with
\* both present a call that returns returns success, and with one absent an
\* error is returned and no membrane or buffer is modified.
C17_FailsOnlyOnAbsentArgs ==
  [][call'.op = "apply_data_free_qat" =>
       /\ (call'.m # NULL /\ call'.cfg # NoConfig /\ fault' = "none") => ret' = OK
       /\ (call'.m = NULL \/ call'.cfg = NoConfig) =>
            /\ ret' = ERR /\ fault' = "none" /\ log' = <<>>
            /\ membrane' = membrane /\ data' = data /\ seed' = seed
            /\ namespace' = namespace]_vars

\* the allocation of the root's config copy failed: the root had no stored
\* config and the first malloc of the call returned NULL
RootCopyFailed == membrane[call'.m].qat_config = NoConfig /\ call'.x = 1

\* C17 as amended: with both present the call fails exactly if the copy of
\* the config for the root cannot be allocated, and changes nothing then.
C17_FailsOnAbsentArgsOrRootCopy ==
  [][call'.op = "apply_data_free_qat" =>
       /\ (call'.m # NULL /\ call'.cfg # NoConfig /\ fault' = "none") =>
            /\ ret' = IF RootCopyFailed THEN ERR ELSE OK
            /\ RootCopyFailed =>
                 (membrane' = membrane /\ data' = data /\ seed' = seed)
       /\ (call'.m = NULL \/ call'.cfg = NoConfig) =>
            /\ ret' = ERR /\ fault' = "none" /\ log' = <<>>
            /\ membrane' = membrane /\ data' = data /\ seed' = seed
            /\ namespace' = namespace]_vars

\* C17 witness: a call with root and config present returned success
\* although the copy for a descendant could not be allocated
C17_Witness ==
  /\ call.op = "apply_data_free_qat" /\ call.m # NULL /\ call.cfg # NoConfig
  /\ fault = "none" /\ ret = OK
  /\ call.x >= 2
  /\ membrane[call.m].qat_config = call.cfg
  /\ \E m \in Reach(call.m) : membrane[m].qat_config = NoConfig

\* C18: ggml_p9ml_membrane_new returns NULL or a fully initialised
\* membrane: the caller's level, no parent, namespace or stored config, no
\* children and objects, the default capacities, and children and objects
\* arrays that exist, so that no add_child or add_object stores through a
\* NULL array.
C18_ConstructionAllOrNothing ==
  /\ (call.op = "membrane_new" /\ call.m # NULL) =>
       /\ membrane[call.m].level = call.x
       /\ membrane[call.m].parent = NULL /\ membrane[call.m].ns = NULL
       /\ membrane[call.m].qat_config = NoConfig
       /\ membrane[call.m].num_children = 0 /\ membrane[call.m].num_objects = 0
       /\ membrane[call.m].max_children = MaxChildren
       /\ membrane[call.m].max_objects = MaxObjects
       /\ membrane[call.m].children = [i \in 1..MaxChildren |-> NULL]
       /\ membrane[call.m].objects = [i \in 1..MaxObjects |-> NULL]
  /\ fault # "null_deref"

\* C19: the first pass that takes a config and is applied to a membrane,
\* apply_data_free_qat or forward_tiled_qat, stores its config on the
\* membrane, and no later pass of any kind replaces a stored config.
C19_FirstPassStoresConfig ==
  [][/\ \A m \in Membranes :
          membrane[m].qat_config # NoConfig =>
            membrane'[m].qat_config = membrane[m].qat_config
     /\ ( /\ call'.op \in {"apply_data_free_qat", "forward_tiled_qat"}
          /\ call'.m # NULL /\ call'.cfg # NoConfig
          /\ fault' = "none" /\ ret' = OK
          /\ membrane[call'.m].qat_config = NoConfig ) =>
          membrane'[call'.m].qat_config = call'.cfg]_vars

\* the value of element j of tensor t after the additions logged in lg from
\* event k on, starting from v: each "noise" event follows the "draw" event
\* that holds the value added
RECURSIVE AfterAdditions(_, _, _, _, _)
AfterAdditions(lg, t, j, v, k) ==
  IF k > Len(lg) THEN v
  ELSE IF lg[k].kind = "noise" /\ lg[k].t = t /\ lg[k].j = j
  THEN AfterAdditions(lg, t, j, F32Round(v + lg[k - 1].j), k + 1)
  ELSE AfterAdditions(lg, t, j, v, k + 1)

\* C20: when an allocation of a config copy fails during a call of
\* apply_data_free_qat, nothing done by the call is undone: every membrane
\* the call stored a config on has it, every config stored before is kept,
\* and every buffer element holds all the perturbations added to it.
C20_NoRollback ==
  [][(call'.op = "apply_data_free_qat" /\ call'.x >= 1 /\ fault' = "none") =>
       /\ \A k \in 1..Len(log') :
            log'[k].kind = "store" => membrane'[log'[k].m].qat_config = call'.cfg
       /\ \A m \in Membranes :
            membrane[m].qat_config # NoConfig =>
              membrane'[m].qat_config = membrane[m].qat_config
       /\ \A t \in Tensors : \A j \in 1..Len(data[t]) :
            data'[t][j] = AfterAdditions(log', t, j, data[t][j], 1)]_vars

\* C20 witness: the copy for a descendant could not be allocated; the root,
\* visited before, has the config of the call and its buffer is perturbed
C20_Witness ==
  /\ call.op = "apply_data_free_qat" /\ call.m # NULL /\ fault = "none"
  /\ call.x >= 2
  /\ call.cfg.noise_scale > 0
  /\ membrane[call.m].qat_config = call.cfg
  /\ Len(EventsOf(log, "store")) >= 1
  /\ \E k \in 1..Len(log) : log[k].kind = "noise" /\ log[k].m = call.m
  /\ \E t \in ObjectsOf(call.m) : \E j \in 1..Len(data[t]) : data[t][j] # 0
  /\ \E m \in Reach(call.m) : membrane[m].qat_config = NoConfig

\* ceil(n / t) for t >= 1
CeilDiv(n, t) == CHOOSE q \in 0..n : q * t >= n /\ (q = 0 \/ (q - 1) * t < n)

\* C21: for n elements and tile size t >= 1 the tiles [k * t, min(k * t + t,
\* n)) for k = 0 .. ceil(n / t) - 1 are contiguous from 0, pairwise
\* disjoint, cover exactly the indices 0 .. n - 1, and each has t elements
\* except the last, which has between 1 and t.
C21_TilesPartition ==
  call.op = "tile_loop" =>
    LET n == call.m
        t == call.x
    IN /\ NumTiles(n, t) = CeilDiv(n, t)
       /\ \A i \in 1..Len(log) :
            /\ log[i].m = i - 1
            /\ log[i].t = (i - 1) * t
            /\ log[i].t = IF i = 1 THEN 0 ELSE log[i - 1].j
            /\ log[i].j - log[i].t >= 1
            /\ log[i].j - log[i].t <= t
            /\ i < CeilDiv(n, t) => log[i].j - log[i].t = t
            /\ log[i].j <= n
       /\ Len(log) = CeilDiv(n, t) =>
            \A idx \in 0..(n - 1) :
              Cardinality({i \in 1..Len(log) : log[i].t <= idx /\ idx < log[i].j}) = 1

\* C21 witness: the loop has ended over a buffer whose length is no
\* multiple of the tile size: several full tiles and a shorter last one
C21_Witness ==
  /\ call.op = "tile_loop"
  /\ Len(log) = NumTiles(call.m, call.x)
  /\ Len(log) >= 3
  /\ log[Len(log)].j = call.m
  /\ log[Len(log)].j - log[Len(log)].t < call.x

\* the live membranes that hold a stored config, in the state after a call
Holders == {m \in Membranes \ freed : membrane[m].qat_config # NoConfig}

\* C22: the stored config of a membrane is a block of its own, which is
\* neither a config of the caller nor the stored config of another membrane
\* and is not free storage; the caller releasing its config changes no
\* membrane; and the release of an intact tree, also after the caller
\* released its config, frees the block of every stored config of the tree
\* once, each of them allocated until then.
C22_StoredConfigIsOwnCopy ==
  [][ /\ \A m \in Membranes \ freed' :
           membrane'[m].qat_config # NoConfig =>
             /\ membrane'[m].config_block \in CopyBlocks \ config_freed'
             /\ membrane'[m].config_block \notin CallerBlocks
             /\ \A x \in Membranes \ freed' :
                  (x # m /\ membrane'[x].qat_config # NoConfig) =>
                    membrane'[x].config_block # membrane'[m].config_block
      /\ call'.op = "qat_config_free" =>
           /\ membrane' = membrane
           /\ \A m \in Holders : membrane[m].config_block \notin config_freed'
      /\ (call'.op = "membrane_free" /\ call'.m # NULL /\ StrictTree(call'.m)
            /\ Reach(call'.m) \cap freed = {}) =>
           LET T == Reach(call'.m)
               rel == EventsOf(log', "free_config")
           IN /\ fault' = "none"
              /\ \A i \in 1..Len(rel) :
                   /\ rel[i].j = membrane[rel[i].m].config_block
                   /\ rel[i].j \notin config_freed
                   /\ \A k \in 1..Len(rel) : rel[k].j = rel[i].j => k = i
              /\ {rel[i].j : i \in 1..Len(rel)}
                   = {membrane[m].config_block : m \in T \cap Holders}
              /\ config_freed' = config_freed \cup {rel[i].j : i \in 1..Len(rel)} ]_vars

\* C22 witness: the caller gave a config to a tree of three membranes,
\* released that config, and then the tree was released with its three copies
C22_Witness ==
  /\ call.op = "membrane_free"
  /\ fault = "none"
  /\ Len(EventsOf(log, "free_config")) = 3
  /\ \E c \in Configs :
       /\ ConfigBlockOf(c) \in config_freed
       /\ \A m \in Membranes : membrane[m].qat_config = c

\* C23: in every reachable state every membrane has between 0 and
\* max_children children and between 0 and max_objects objects, the entries
\* of its lists below the counts are non-absent, and the capacities are
\* those of construction.
C23_CountsAndEntries ==
  \A m \in Membranes \ freed :
    /\ 0 <= membrane[m].num_children
    /\ membrane[m].num_children <= membrane[m].max_children
    /\ 0 <= membrane[m].num_objects
    /\ membrane[m].num_objects <= membrane[m].max_objects
    /\ \A i \in 1..membrane[m].num_children : membrane[m].children[i] \in Membranes
    /\ \A i \in 1..membrane[m].num_objects : membrane[m].objects[i] \in Tensors
    /\ membrane[m].max_children = ggml_p9ml_membrane_new(0).max_children
    /\ membrane[m].max_objects = ggml_p9ml_membrane_new(0).max_objects

\* C23 witness: a membrane with both lists full has just refused a call
C23_Witness ==
  /\ call.op \in {"add_child", "add_object"} /\ call.m # NULL /\ call.x # NULL
  /\ ret = ERR /\ fault = "none"
  /\ \/ membrane[call.m].num_children = membrane[call.m].max_children
     \/ membrane[call.m].num_objects = membrane[call.m].max_objects

\* C24: when a root membrane of a structure that add_child calls built is
\* freed, nothing having been freed before, no membrane and no stored config
\* is released twice and no released membrane is read.
C24_FreeReleasesOnce ==
  [][(call'.op = "membrane_free" /\ call'.m # NULL /\ freed = {}
       /\ membrane[call'.m].parent = NULL) =>
       LET rel == EventsOf(log', "free_membrane")
           cfg == EventsOf(log', "free_config")
       IN /\ EventsOf(log', "use_after_free") = <<>>
          /\ \A i, k \in 1..Len(rel) : rel[i].m = rel[k].m => i = k
          /\ \A i, k \in 1..Len(cfg) : cfg[i].j = cfg[k].j => i = k ]_vars

\* C25: every recursive operation ends, its recursion no deeper than the
\* number of membranes: no call of set_root, apply_data_free_qat, evolve or
\* membrane_free after add_child calls recurses without end.
C25_RecursionTerminates ==
  call.op \in {"set_root", "apply_data_free_qat", "evolve", "membrane_free"} =>
    fault # "stack_overflow"

\* every membrane that refers to namespace n is reachable from the root of n
NsRefsReachable(n) ==
  \A m \in Membranes :
    membrane[m].ns = n =>
      (namespace[n].root # NULL /\ m \in Reach(namespace[n].root))

\* C26: in every state reachable by add_child and set_root calls a membrane
\* whose namespace reference is ns is reachable from ns.root, also after
\* set_root(ns, r1) and then set_root(ns, r2) with r2 outside the tree of r1.
C26_NamespaceRefsReachable == \A n \in Namespaces : NsRefsReachable(n)

\* the call made is a successful set_root(n, r2) while n has a root that is
\* not in the tree of r2
Reroot(n) ==
  /\ call'.op = "set_root" /\ call'.x = n /\ call'.m # NULL
  /\ namespace[n].root # NULL
  /\ namespace[n].root \notin Reach(call'.m)

\* C26 amended: the membranes that refer to ns stay reachable from ns.root
\* through every add_child and every set_root, except a set_root(ns, r2)
\* that leaves the previous root of ns outside the tree of r2; that call
\* writes the references of the tree of r2 only, so that the membranes of
\* the previous tree keep their reference to ns.
C26_ReachableUntilReroot ==
  [][\A n \in Namespaces :
       /\ (NsRefsReachable(n) /\ ~Reroot(n)) => NsRefsReachable(n)'
       /\ Reroot(n) =>
            /\ \A m \in Membranes \ Reach(call'.m) : membrane'[m].ns = membrane[m].ns
            /\ membrane'[namespace[n].root].ns = membrane[namespace[n].root].ns ]_vars

\* C26 witness: a namespace was given a second root outside the tree of its
\* first root, and the first tree still refers to the namespace
C26_Witness ==
  /\ call.op = "set_root" /\ call.m # NULL /\ call.x # NULL
  /\ ret = OK /\ fault = "none"
  /\ namespace[call.x].root = call.m
  /\ \E m \in Membranes \ Reach(call.m) :
       /\ membrane[m].ns = call.x
       /\ Cardinality(Reach(m)) >= 2
       /\ \A x \in Reach(m) : membrane[x].ns = call.x /\ x \notin Reach(call.m)

\* the namespace reference of the root of n is n
RootRefHolds(n) ==
  namespace[n].root # NULL => membrane[namespace[n].root].ns = n

\* C27: in every state reachable by add_child and set_root calls, every
\* namespace ns with a root has ns.root.namespace_ref = ns.
C27_RootRefersToNamespace == \A n \in Namespaces : RootRefHolds(n)

\* the call made is a set_root into another namespace on a membrane that
\* has the root of n in its tree
Overwrites(n) ==
  /\ call'.op = "set_root" /\ call'.x \notin {n, NULL} /\ call'.m # NULL
  /\ namespace[n].root \in Reach(call'.m)

\* the call made is an add_child that attached the root of n under a
\* membrane whose namespace reference is not n
Reattaches(n) ==
  /\ call'.op = "add_child" /\ call'.m # NULL /\ call'.x = namespace[n].root
  /\ membrane'[call'.m].num_children = membrane[call'.m].num_children + 1
  /\ membrane[call'.m].ns # n

\* C27 amended: right after a successful set_root(ns, r) the reference of
\* ns.root is ns, and it stays ns through every add_child and set_root
\* except two: a set_root into another namespace on a membrane with ns.root
\* in its tree, and an add_child that attaches ns.root under a membrane whose
\* reference is not ns.  Each of these two, when it returns, leaves ns.root
\* with another reference.
C27_RootRefUntilOverwritten ==
  [][\A n \in Namespaces :
       /\ (call'.op = "set_root" /\ call'.x = n /\ call'.m # NULL /\ fault' = "none") =>
            (namespace'[n].root = call'.m /\ RootRefHolds(n)')
       /\ (RootRefHolds(n) /\ ~Overwrites(n) /\ ~Reattaches(n)) => RootRefHolds(n)'
       /\ (namespace[n].root # NULL /\ fault' = "none"
             /\ (Overwrites(n) \/ Reattaches(n))) => ~RootRefHolds(n)' ]_vars

\* C27 witness: the root of one namespace has just been made the root of
\* another namespace, or attached under a membrane of another namespace
C27_Witness ==
  /\ fault = "none" /\ ret = OK
  /\ \/ /\ call.op = "set_root" /\ call.m # NULL /\ call.x # NULL
        /\ \E n \in Namespaces : n # call.x /\ namespace[n].root = call.m
     \/ /\ call.op = "add_child" /\ call.m # NULL /\ call.x # NULL
        /\ \E n \in Namespaces :
             namespace[n].root = call.x /\ membrane[call.x].ns # n

\* C28: apply_data_free_qat reads and writes every float32 and float16
\* buffer inside its own storage: with n elements of w bytes (4 for
\* float32, 2 for float16), the bytes 4 * j .. 4 * j + 3 of every element
\* j it addresses lie below n * w.
C28_TouchesOwnStorage ==
  call.op = "apply_data_free_qat" =>
    \A k \in 1..Len(log) :
      log[k].kind \in {"noise", "out_of_bounds"} =>
        4 * (log[k].j - 1) + 3 < ggml_nelements(log[k].t) * ElementWidth(log[k].t)

====
